---- MODULE Spec2Model ----
(***************************************************************************)
(* MagmaWM input pipeline: MagmaState::process_input_event, clamp_coords,  *)
(* set_input_focus, set_input_focus_auto and handle_action                 *)
(* (src/src/handlers/input.rs) over the state built by MagmaState::new     *)
(* (src/src/state.rs).                                                     *)
(*                                                                         *)
(* Coordinates are f64 in the source; the model uses integers on a small   *)
(* grid.  The workspace collection (utils::workspace), the focus target    *)
(* type, the configuration table and surface_under are not among the       *)
(* source files; they are modelled from the specification's description    *)
(* of the workspace service and the binding table.  The seat's keyboard    *)
(* and pointer handles (smithay) are the protocol layer: a call into them  *)
(* is recorded in `sent`, in call order.                                   *)
(***************************************************************************)
EXTENDS Integers, Sequences, FiniteSets, TLC

VARIABLES
    pointer_location,   \* MagmaState.pointer_location : Point<f64, Logical>
    current,            \* workspaces: id of the active workspace
    window_ws,          \* workspaces: window -> workspace id, or NoWorkspace when not mapped
    outputs,            \* workspaces.current().outputs(): geometries, primary first
    focus,              \* keyboard focus target held by the seat's keyboard
    pointer_target,     \* pointer focus held by the seat's pointer (set by motion)
    serial,             \* SERIAL_COUNTER: the last serial issued
    status,             \* "running", "stopped" (loop_signal.stop() was called; the
                        \* handlers still run when called) or "panicked"
    event,              \* the raw input event the last step handled (NoEvent: none)
    sent,               \* calls made to the protocol layer and the launcher by that step, in order
    executed,           \* actions passed to handle_action by that step, in order
    config,             \* CONFIG: which of the binding tables was loaded, once
    history             \* SpecRel: the relative deltas handled so far;
                        \* SpecClamp: the points given to clamp_coords so far

vars == <<pointer_location, current, window_ws, outputs, focus, pointer_target,
          serial, status, event, sent, executed, config, history>>

(***************************************************************************)
(* Bounds of the exploration.                                              *)
(***************************************************************************)
\* serials issued before the exploration stops drawing events
MaxSerial == 4
\* the arrangements drawn put the pointer on a grid around 0..MaxCoord on each axis
MaxCoord == 2
\* a device's absolute axis reports 0..AbsRange
AbsRange == 2

NoWindow == "none"
\* the membership of a window no workspace holds
NoWorkspace == 0 - 1
NoEvent == [kind |-> "none"]

\* the windows clients map, and the workspace ids actions name; the workspace
\* collection itself (Workspaces::new, current, activate) is the workspace service
Windows == {"w1", "w2"}

WorkspaceIds == {0, 1}

\* event times in milliseconds
Times == {1, 2}

Pt(px, py) == [x |-> px, y |-> py]

Rect(lx, ly, w, h) == [loc |-> Pt(lx, ly), size |-> Pt(w, h)]

\* geometries an output can have (mode size, position in the workspace)
OutputGeos == {Rect(0, 0, 2, 2), Rect(1, 0, 3, 2)}

\* every mapped window keeps one geometry; w1 is stacked above w2
WindowGeo(w) == IF w = "w1" THEN Rect(0, 0, 2, 2) ELSE Rect(1, 1, 2, 2)

WindowStack == <<"w1", "w2">>

Max(a, b) == IF a >= b THEN a ELSE b

Min(a, b) == IF a <= b THEN a ELSE b

(***************************************************************************)
(* The workspace service: window_under, activate, move_window_to_workspace *)
(* and the outputs of the active workspace.                                *)
(***************************************************************************)
\* a rectangle contains its origin and excludes its far edges
Contains(r, p) ==
    /\ r.loc.x <= p.x /\ p.x < r.loc.x + r.size.x
    /\ r.loc.y <= p.y /\ p.y < r.loc.y + r.size.y

RECURSIVE TopmostFrom(_, _, _)
TopmostFrom(s, pos, i) ==
    IF i > Len(WindowStack) THEN NoWindow
    ELSE IF /\ s.window_ws[WindowStack[i]] = s.current
            /\ Contains(WindowGeo(WindowStack[i]), pos)
         THEN WindowStack[i]
         ELSE TopmostFrom(s, pos, i + 1)

\* workspaces.current().window_under(pos)
WindowUnder(s, pos) == TopmostFrom(s, pos, 1)

\* self.surface_under(): the surface under the stored pointer location
SurfaceUnder(s) == WindowUnder(s, s.pointer_location)

\* workspaces.activate(id)
Activate(s, id) == [s EXCEPT !.current = id]

\* workspaces.move_window_to_workspace(&window, id)
MoveWindowToWorkspace(s, w, id) == [s EXCEPT !.window_ws[w] = id]

\* workspaces.current().outputs().next().is_none()
NoOutput(s) == s.outputs = <<>>

\* output_geometry(outputs().next().unwrap()).unwrap()
PrimaryGeometry(s) == Head(s.outputs)

(***************************************************************************)
(* src/src/handlers/input.rs                                               *)
(***************************************************************************)
\* SERIAL_COUNTER.next_serial(): the value issued by the next call
NextSerial(s) == s.serial + 1

\* the state after one next_serial() call
Issued(s) == [s EXCEPT !.serial = NextSerial(s)]

\* a call into the protocol layer
Send(s, n) == [s EXCEPT !.sent = Append(@, n)]

\* ClampAxis without the lower limit
ClampAxisNoFloor(v, max) == Min(v, max)

\* pos.max(0.0).min(max as f64)
ClampAxis(v, max) == Min(Max(v, 0), max)

\* ClampCoords limiting the point to the origin when there is no output
ClampCoordsWithoutOutput(s, pos) ==
    IF NoOutput(s) THEN Pt(ClampAxis(pos.x, 0), ClampAxis(pos.y, 0))
    ELSE Pt(ClampAxis(pos.x, PrimaryGeometry(s).size.x),
            ClampAxis(pos.y, PrimaryGeometry(s).size.y))

\* clamp_coords(&self, pos)
ClampCoords(s, pos) ==
    IF NoOutput(s) THEN pos
    ELSE Pt(ClampAxis(pos.x, PrimaryGeometry(s).size.x),
            ClampAxis(pos.y, PrimaryGeometry(s).size.y))

\* SetInputFocus warping the pointer to the focused window's origin
SetInputFocusWarping(s, target) ==
    LET s1 == Issued(s)
    IN  [Send(s1, [kind |-> "focus", target |-> target, serial |-> s1.serial])
            EXCEPT !.focus = target, !.pointer_location = WindowGeo(target).loc]

\* set_input_focus(&mut self, target)
SetInputFocus(s, target) ==
    LET s1 == Issued(s)
    IN  [Send(s1, [kind |-> "focus", target |-> target, serial |-> s1.serial])
            EXCEPT !.focus = target]

\* SetInputFocusAuto clearing the focus when no surface is under the pointer
SetInputFocusAutoClearing(s) ==
    IF SurfaceUnder(s) # NoWindow THEN SetInputFocus(s, SurfaceUnder(s))
    ELSE [s EXCEPT !.focus = NoWindow]

\* set_input_focus_auto(&mut self)
SetInputFocusAuto(s) ==
    IF SurfaceUnder(s) # NoWindow THEN SetInputFocus(s, SurfaceUnder(s)) ELSE s

\* config::Action values
Act(type, id, command) == [type |-> type, id |-> id, command |-> command]

Quit == Act("Quit", 0, "")

Debug == Act("Debug", 0, "")

Close == Act("Close", 0, "")

Workspace(id) == Act("Workspace", id, "")

MoveWindow(id) == Act("MoveWindow", id, "")

MoveAndSwitch(id) == Act("MoveAndSwitch", id, "")

ToggleWindowFloating == Act("ToggleWindowFloating", 0, "")

Spawn(command) == Act("Spawn", 0, command)

VTSwitch(n) == Act("VTSwitch", n, "")

\* Panic returning to the caller
PanicIgnored(s) == s

\* todo!() and unwrap() on None: the process dies where it stands
Panic(s) == [s EXCEPT !.status = "panicked"]

\* ActionClose closing the focused window when no window is under the pointer
ActionCloseFocused(s) ==
    IF WindowUnder(s, s.pointer_location) # NoWindow
    THEN Send(s, [kind |-> "close", target |-> WindowUnder(s, s.pointer_location)])
    ELSE IF s.focus # NoWindow THEN Send(s, [kind |-> "close", target |-> s.focus])
    ELSE s

\* handle_action: Action::Close
ActionClose(s) ==
    IF WindowUnder(s, s.pointer_location) # NoWindow
    THEN Send(s, [kind |-> "close", target |-> WindowUnder(s, s.pointer_location)])
    ELSE s

\* ActionWorkspace running auto-focus before it activates the workspace
ActionWorkspaceFocusFirst(s, id) == Activate(SetInputFocusAuto(s), id)

\* handle_action: Action::Workspace(id)
ActionWorkspace(s, id) == SetInputFocusAuto(Activate(s, id))

\* ActionMoveWindow following the window to its workspace
ActionMoveWindowFollowing(s, id) ==
    IF WindowUnder(s, s.pointer_location) # NoWindow
    THEN Activate(MoveWindowToWorkspace(s, WindowUnder(s, s.pointer_location), id), id)
    ELSE s

\* handle_action: Action::MoveWindow(id)
ActionMoveWindow(s, id) ==
    IF WindowUnder(s, s.pointer_location) # NoWindow
    THEN MoveWindowToWorkspace(s, WindowUnder(s, s.pointer_location), id)
    ELSE s

\* ActionSpawn unwrapping the launch's result
ActionSpawnUnwrapping(s, command, spawn_ok) ==
    IF spawn_ok
    THEN Send(s, [kind |-> "spawn", command |-> command])
    ELSE Panic(Send(s, [kind |-> "spawn", command |-> command]))

\* handle_action: Action::Spawn(command); spawn_ok is what Command::spawn returns
ActionSpawn(s, command, spawn_ok) ==
    IF spawn_ok
    THEN Send(s, [kind |-> "spawn", command |-> command])
    ELSE Send(Send(s, [kind |-> "spawn", command |-> command]),
              [kind |-> "log", command |-> command])

\* HandleAction with MoveAndSwitch switching the workspace before it moves the window
HandleActionSwitchFirst(s0, action, spawn_ok) ==
    LET s == [s0 EXCEPT !.executed = Append(@, action)]
    IN  IF s0.status = "panicked" THEN s0
        ELSE CASE action.type = "Quit" -> [s EXCEPT !.status = "stopped"]
               [] action.type = "Close" -> ActionClose(s)
               [] action.type = "Workspace" -> ActionWorkspace(s, action.id)
               [] action.type = "MoveWindow" -> ActionMoveWindow(s, action.id)
               [] action.type = "MoveAndSwitch" ->
                    LET s1 == ActionWorkspace(
                                  [s EXCEPT !.executed = Append(@, Workspace(action.id))],
                                  action.id)
                    IN  ActionMoveWindow(
                            [s1 EXCEPT !.executed = Append(@, MoveWindow(action.id))],
                            action.id)
               [] action.type = "Spawn" -> ActionSpawn(s, action.command, spawn_ok)
               [] OTHER -> Panic(s)

\* handle_action(&mut self, action)
RECURSIVE HandleAction(_, _, _)
HandleAction(s0, action, spawn_ok) ==
    LET s == [s0 EXCEPT !.executed = Append(@, action)]
    IN  IF s0.status = "panicked" THEN s0
        ELSE CASE action.type = "Quit" -> [s EXCEPT !.status = "stopped"]
               [] action.type = "Debug" -> Panic(s)
               [] action.type = "Close" -> ActionClose(s)
               [] action.type = "Workspace" -> ActionWorkspace(s, action.id)
               [] action.type = "MoveWindow" -> ActionMoveWindow(s, action.id)
               [] action.type = "MoveAndSwitch" ->
                    HandleAction(HandleAction(s, MoveWindow(action.id), spawn_ok),
                                 Workspace(action.id), spawn_ok)
               [] action.type = "ToggleWindowFloating" -> Panic(s)
               [] action.type = "Spawn" -> ActionSpawn(s, action.command, spawn_ok)
               [] action.type = "VTSwitch" -> Panic(s)

Modifiers == {"Logo", "Shift", "Ctrl"}

Binding(modifiers, key, action) == [modifiers |-> modifiers, key |-> key, action |-> action]

\* the binding table the pipeline specification loads
DefaultConfig ==
    << Binding({"Logo"}, "q", Quit),
       Binding({"Logo"}, "c", Close),
       Binding({"Logo"}, "1", Workspace(0)),
       Binding({"Logo"}, "2", Workspace(1)),
       Binding({"Logo", "Shift"}, "1", MoveWindow(0)),
       Binding({"Logo", "Shift"}, "2", MoveWindow(1)),
       Binding({"Logo", "Ctrl"}, "1", MoveAndSwitch(0)),
       Binding({"Logo", "Ctrl"}, "2", MoveAndSwitch(1)),
       Binding({"Logo"}, "t", Spawn("term")),
       Binding({"Logo"}, "d", Debug),
       Binding({"Logo"}, "f", ToggleWindowFloating),
       Binding({"Logo"}, "v", VTSwitch(1)) >>

\* a table with overlapping bindings: a repeated chord (1, 3), two symbols of one
\* key under the same modifiers (1, 2), and modifier sets that are a subset (4)
\* and a superset (5, 6) of another binding's
OverlapConfig ==
    << Binding({"Logo"}, "a", Close),
       Binding({"Logo"}, "b", Workspace(1)),
       Binding({"Logo"}, "a", Quit),
       Binding({}, "a", MoveAndSwitch(1)),
       Binding({"Logo", "Shift"}, "a", Spawn("term")),
       Binding({"Logo", "Shift"}, "b", Debug) >>

\* a table without bindings
EmptyConfig == << >>

\* the binding tables a configuration can hold
Tables == << DefaultConfig, OverlapConfig, EmptyConfig >>

\* CONFIG.keybindings
Keybindings == Tables[config]

\* keyboard::FilterResult
Forward == [type |-> "Forward", action |-> Act("", 0, "")]

Intercept(action) == [type |-> "Intercept", action |-> action]

\* FilterFrom without the test for a press
RECURSIVE FilterFromAnyTransition(_, _, _, _, _)
FilterFromAnyTransition(table, i, modifiers, raw_syms, key_state) ==
    IF i > Len(table) THEN Forward
    ELSE IF /\ table[i].modifiers = modifiers
            /\ table[i].key \in raw_syms
         THEN Intercept(table[i].action)
         ELSE FilterFromAnyTransition(table, i + 1, modifiers, raw_syms, key_state)

\* FilterFrom matching a binding whose modifiers are all active, among others
RECURSIVE FilterFromSubset(_, _, _, _, _)
FilterFromSubset(table, i, modifiers, raw_syms, key_state) ==
    IF i > Len(table) THEN Forward
    ELSE IF /\ key_state = "Pressed"
            /\ table[i].modifiers \subseteq modifiers
            /\ table[i].key \in raw_syms
         THEN Intercept(table[i].action)
         ELSE FilterFromSubset(table, i + 1, modifiers, raw_syms, key_state)

\* the filter closure: for (binding, action) in CONFIG.keybindings.iter()
RECURSIVE FilterFrom(_, _, _, _, _)
FilterFrom(table, i, modifiers, raw_syms, key_state) ==
    IF i > Len(table) THEN Forward
    ELSE IF /\ key_state = "Pressed"
            /\ table[i].modifiers = modifiers
            /\ table[i].key \in raw_syms
         THEN Intercept(table[i].action)
         ELSE FilterFrom(table, i + 1, modifiers, raw_syms, key_state)

Filter(table, modifiers, raw_syms, key_state) ==
    FilterFrom(table, 1, modifiers, raw_syms, key_state)

\* keyboard.input(...) forwarding a key: it goes to the keyboard focus, if there is one
ForwardKey(s, ev, key_serial) ==
    Send(s, [kind |-> "key", target |-> s.focus, code |-> ev.code,
             state |-> ev.state, serial |-> key_serial, time |-> ev.time])

\* KeyboardArm forwarding the key it intercepts
KeyboardArmForwardsToo(s, ev, spawn_ok) ==
    LET s1 == Issued(s)
        result == Filter(Keybindings, ev.modifiers, ev.syms, ev.state)
    IN  IF result.type = "Intercept"
        THEN HandleAction(ForwardKey(s1, ev, s1.serial), result.action, spawn_ok)
        ELSE ForwardKey(s1, ev, s1.serial)

\* process_input_event: InputEvent::Keyboard
KeyboardArm(s, ev, spawn_ok) ==
    LET s1 == Issued(s)
        result == Filter(Keybindings, ev.modifiers, ev.syms, ev.state)
    IN  IF result.type = "Intercept"
        THEN HandleAction(s1, result.action, spawn_ok)
        ELSE ForwardKey(s1, ev, s1.serial)

\* PointerMotionArm storing the location without clamping it
PointerMotionArmUnclamped(s, ev) ==
    LET s1 == Issued(s)
        s2 == [s1 EXCEPT !.pointer_location =
                  Pt(s1.pointer_location.x + ev.delta.x,
                     s1.pointer_location.y + ev.delta.y)]
        under == SurfaceUnder(s2)
        s3 == SetInputFocusAuto(s2)
        s4 == Send(s3, [kind |-> "motion", target |-> under,
                        location |-> s3.pointer_location,
                        serial |-> s1.serial, time |-> ev.time])
        s5 == Send(s4, [kind |-> "relative_motion", target |-> under,
                        delta |-> ev.delta, time |-> ev.time])
    IN  [s5 EXCEPT !.pointer_target = under]

\* process_input_event: InputEvent::PointerMotion
PointerMotionArm(s, ev) ==
    LET s1 == Issued(s)
        s2 == [s1 EXCEPT !.pointer_location =
                  ClampCoords(s1, Pt(s1.pointer_location.x + ev.delta.x,
                                     s1.pointer_location.y + ev.delta.y))]
        under == SurfaceUnder(s2)
        s3 == SetInputFocusAuto(s2)
        s4 == Send(s3, [kind |-> "motion", target |-> under,
                        location |-> s3.pointer_location,
                        serial |-> s1.serial, time |-> ev.time])
        s5 == Send(s4, [kind |-> "relative_motion", target |-> under,
                        delta |-> ev.delta, time |-> ev.time])
    IN  [s5 EXCEPT !.pointer_target = under]

\* event.position_transformed(size): the device position scaled to the output size
PositionTransformed(pos, size) ==
    Pt((pos.x * size.x) \div AbsRange, (pos.y * size.y) \div AbsRange)

\* PointerMotionAbsoluteArm drawing its serial before it looks for the output
PointerMotionAbsoluteArmIssuingFirst(s, ev) ==
    IF NoOutput(s) THEN Panic(Issued(s))
    ELSE LET output_geo == PrimaryGeometry(s)
             pos == Pt(PositionTransformed(ev.pos, output_geo.size).x + output_geo.loc.x,
                       PositionTransformed(ev.pos, output_geo.size).y + output_geo.loc.y)
             s1 == Issued(s)
             s2 == [s1 EXCEPT !.pointer_location = ClampCoords(s1, pos)]
             under == SurfaceUnder(s2)
             s3 == SetInputFocusAuto(s2)
             s4 == Send(s3, [kind |-> "motion", target |-> under, location |-> pos,
                             serial |-> s1.serial, time |-> ev.time])
         IN  [s4 EXCEPT !.pointer_target = under]

\* process_input_event: InputEvent::PointerMotionAbsolute
PointerMotionAbsoluteArm(s, ev) ==
    IF NoOutput(s) THEN Panic(s)
    ELSE LET output_geo == PrimaryGeometry(s)
             pos == Pt(PositionTransformed(ev.pos, output_geo.size).x + output_geo.loc.x,
                       PositionTransformed(ev.pos, output_geo.size).y + output_geo.loc.y)
             s1 == Issued(s)
             s2 == [s1 EXCEPT !.pointer_location = ClampCoords(s1, pos)]
             under == SurfaceUnder(s2)
             s3 == SetInputFocusAuto(s2)
             s4 == Send(s3, [kind |-> "motion", target |-> under, location |-> pos,
                             serial |-> s1.serial, time |-> ev.time])
         IN  [s4 EXCEPT !.pointer_target = under]

\* PointerButtonArm dispatching the button before auto-focus runs
PointerButtonArmDispatchFirst(s, ev) ==
    LET s1 == Issued(s)
        s2 == Send(s1, [kind |-> "button", target |-> s1.pointer_target,
                        button |-> ev.button, state |-> ev.state,
                        serial |-> s1.serial, time |-> ev.time])
    IN  SetInputFocusAuto(s2)

\* process_input_event: InputEvent::PointerButton
PointerButtonArm(s, ev) ==
    LET s1 == Issued(s)
        s2 == SetInputFocusAuto(s1)
    IN  Send(s2, [kind |-> "button", target |-> s2.pointer_target,
                  button |-> ev.button, state |-> ev.state,
                  serial |-> s1.serial, time |-> ev.time])

\* Option<f64>
None == [some |-> FALSE, val |-> 0]

Some(v) == [some |-> TRUE, val |-> v]

\* event.amount(axis).unwrap_or_else(|| event.amount_discrete(axis).unwrap_or(0.0) * 3.0)
AxisAmount(amount, amount_discrete) ==
    IF amount.some THEN amount.val
    ELSE (IF amount_discrete.some THEN amount_discrete.val ELSE 0) * 3

\* AxisPart stopping the axis for every source
AxisPartStopAnySource(amount, amount_discrete, source) ==
    IF AxisAmount(amount, amount_discrete) # 0
    THEN [value |-> Some(AxisAmount(amount, amount_discrete)),
          discrete |-> amount_discrete, stop |-> FALSE]
    ELSE [value |-> None, discrete |-> None, stop |-> TRUE]

\* one axis of the frame: value and discrete when the amount is not 0, stop for a finger
AxisPart(amount, amount_discrete, source) ==
    IF AxisAmount(amount, amount_discrete) # 0
    THEN [value |-> Some(AxisAmount(amount, amount_discrete)),
          discrete |-> amount_discrete, stop |-> FALSE]
    ELSE IF source = "Finger"
         THEN [value |-> None, discrete |-> None, stop |-> TRUE]
         ELSE [value |-> None, discrete |-> None, stop |-> FALSE]

\* process_input_event: InputEvent::PointerAxis
PointerAxisArm(s, ev) ==
    Send(s, [kind |-> "axis", target |-> s.pointer_target, time |-> ev.time,
             source |-> ev.source,
             horizontal |-> AxisPart(ev.amount.h, ev.amount_discrete.h, ev.source),
             vertical |-> AxisPart(ev.amount.v, ev.amount_discrete.v, ev.source)])

\* process_input_event(&mut self, event)
ProcessInputEvent(s, ev, spawn_ok) ==
    CASE ev.kind = "key" -> KeyboardArm(s, ev, spawn_ok)
      [] ev.kind = "motion" -> PointerMotionArm(s, ev)
      [] ev.kind = "motion_absolute" -> PointerMotionAbsoluteArm(s, ev)
      [] ev.kind = "button" -> PointerButtonArm(s, ev)
      [] ev.kind = "axis" -> PointerAxisArm(s, ev)
      [] OTHER -> s

(***************************************************************************)
(* The state machine.                                                      *)
(***************************************************************************)
\* the state a handler starts from: nothing sent, nothing executed yet
State ==
    [pointer_location |-> pointer_location, current |-> current,
     window_ws |-> window_ws, outputs |-> outputs, focus |-> focus,
     pointer_target |-> pointer_target, serial |-> serial, status |-> status,
     sent |-> <<>>, executed |-> <<>>]

\* the handler's result becomes the next state
Commit(r, ev) ==
    /\ pointer_location' = r.pointer_location
    /\ current' = r.current
    /\ window_ws' = r.window_ws
    /\ outputs' = r.outputs
    /\ focus' = r.focus
    /\ pointer_target' = r.pointer_target
    /\ serial' = r.serial
    /\ status' = r.status
    /\ sent' = r.sent
    /\ executed' = r.executed
    /\ event' = ev
    /\ UNCHANGED config

\* a handler can be called while the process lives, also after loop_signal.stop();
\* each call issues at most two serials
Drawing == status # "panicked" /\ serial + 2 <= MaxSerial

KeySyms == <<"q", "c", "1", "2", "t", "d", "f", "v">>

\* the keymap: the key code of the key that carries a symbol
KeyCode(sym) == CHOOSE i \in 1..Len(KeySyms) : KeySyms[i] = sym

KeyEvent(code, state, time, modifiers, syms) ==
    [kind |-> "key", code |-> code, state |-> state, time |-> time,
     modifiers |-> modifiers, syms |-> syms]

\* the chords of the pipeline specification: every bound chord, and an unbound one
PipelineChords ==
    { <<DefaultConfig[i].modifiers, DefaultConfig[i].key>> : i \in 1..Len(DefaultConfig) }
        \cup { <<{}, "q">> }

\* key events of the pipeline specification: a press of every chord, and the
\* release of a bound and of an unbound chord
PipelineKeyEvents ==
    { KeyEvent(KeyCode(c[2]), "Pressed", 1, c[1], {c[2]}) : c \in PipelineChords }
        \cup { KeyEvent(KeyCode("q"), "Released", 1, mods, {"q"}) : mods \in {{}, {"Logo"}} }

Deltas == {0 - 2, 0, 1}

MotionEvents ==
    { [kind |-> "motion", delta |-> Pt(dx, dy), time |-> tm] :
        dx \in Deltas, dy \in Deltas, tm \in {1} }

MotionAbsoluteEvents ==
    { [kind |-> "motion_absolute", pos |-> Pt(px, py), time |-> tm] :
        px \in 0..AbsRange, py \in 0..AbsRange, tm \in {1} }

ButtonEvents ==
    { [kind |-> "button", button |-> b, state |-> st, time |-> tm] :
        b \in {"left", "right"}, st \in {"Pressed", "Released"}, tm \in {1} }

AxisSources == {"Wheel", "Finger"}

Amounts == {None, Some(0), Some(2)}

AxisEvents ==
    { [kind |-> "axis", source |-> src, amount |-> [h |-> ah, v |-> av],
       amount_discrete |-> [h |-> dh, v |-> dv], time |-> tm] :
        src \in AxisSources, ah \in Amounts, av \in Amounts,
        dh \in Amounts, dv \in Amounts, tm \in Times }

\* the keymap of the key specification: key code, symbols of the key
Keymap == { <<1, {"a"}>>, <<2, {"b"}>>, <<3, {"a", "b"}>>, <<4, {"z"}>> }

\* key events of the key specification
AllKeyEvents ==
    { KeyEvent(k[1], st, tm, mods, k[2]) :
        k \in Keymap, st \in {"Pressed", "Released"}, tm \in Times,
        mods \in SUBSET {"Logo", "Shift"} }

\* axis events of the pipeline specification
PipelineAxisEvents ==
    { e \in AxisEvents : e.amount.v = None /\ e.amount_discrete.v = None
                          /\ e.amount_discrete.h = None /\ e.time = 1
                          /\ e.amount.h # None }

\* MagmaState::new
Init ==
    /\ pointer_location = Pt(0, 0)
    /\ current = 0
    /\ window_ws = [w \in Windows |-> NoWorkspace]
    /\ outputs = <<>>
    /\ focus = NoWindow
    /\ pointer_target = NoWindow
    /\ serial = 0
    /\ status = "running"
    /\ event = NoEvent
    /\ sent = <<>>
    /\ executed = <<>>
    /\ config = 1
    /\ history = <<>>

KeyboardOver(events) ==
    /\ Drawing
    /\ \E ev \in events :
         \E spawn_ok \in IF Filter(Keybindings, ev.modifiers, ev.syms, ev.state).action.type = "Spawn"
                         THEN BOOLEAN ELSE {TRUE} :
            \E r \in {ProcessInputEvent(State, ev, spawn_ok)} : Commit(r, ev)
    /\ UNCHANGED history

Keyboard == KeyboardOver(PipelineKeyEvents)

PointerMotion ==
    /\ Drawing
    /\ \E ev \in MotionEvents :
         \E r \in {ProcessInputEvent(State, ev, TRUE)} : Commit(r, ev)
    /\ UNCHANGED history

PointerMotionAbsolute ==
    /\ Drawing
    /\ \E ev \in MotionAbsoluteEvents :
         \E r \in {ProcessInputEvent(State, ev, TRUE)} : Commit(r, ev)
    /\ UNCHANGED history

PointerButton ==
    /\ Drawing
    /\ \E ev \in ButtonEvents :
         \E r \in {ProcessInputEvent(State, ev, TRUE)} : Commit(r, ev)
    /\ UNCHANGED history

PointerAxisOver(events) ==
    /\ Drawing
    /\ \E ev \in events :
         \E r \in {ProcessInputEvent(State, ev, TRUE)} : Commit(r, ev)
    /\ UNCHANGED history

PointerAxis == PointerAxisOver(PipelineAxisEvents)

\* a call of set_input_focus(target) from outside process_input_event, as a step input
FocusCall(target) == [kind |-> "set_input_focus", target |-> target]

\* a call of set_input_focus_auto() from outside process_input_event, as a step input
AutoFocusCall == [kind |-> "set_input_focus_auto"]

\* self.set_input_focus(target), called on its own: any window can be the target
SetFocus ==
    /\ Drawing
    /\ \E target \in Windows :
         \E r \in {SetInputFocus(State, target)} : Commit(r, FocusCall(target))
    /\ UNCHANGED history

\* self.set_input_focus_auto(), called on its own
SetFocusAuto ==
    /\ Drawing
    /\ \E r \in {SetInputFocusAuto(State)} : Commit(r, AutoFocusCall)
    /\ UNCHANGED history

\* a step that handles no input event: nothing is sent, nothing is executed
Idle == event' = NoEvent /\ sent' = <<>> /\ executed' = <<>>

\* the backend binds its output to the workspaces
OutputBind ==
    /\ status # "panicked"
    /\ outputs = <<>>
    /\ \E g \in OutputGeos :
         outputs' = Append(outputs, g)
    /\ Idle
    /\ UNCHANGED <<pointer_location, current, window_ws, focus, pointer_target,
                   serial, status, config, history>>

\* the backend changes the primary output's mode
OutputResize ==
    /\ status # "panicked"
    /\ outputs # <<>>
    /\ \E g \in OutputGeos :
         /\ \A i \in 1..Len(outputs) : outputs[i] # g
         /\ outputs' = [outputs EXCEPT ![1] = g]
    /\ Idle
    /\ UNCHANGED <<pointer_location, current, window_ws, focus, pointer_target,
                   serial, status, config, history>>

\* a client maps a window: it joins the active workspace
MapWindow ==
    /\ status # "panicked"
    /\ \E w \in Windows :
         /\ window_ws[w] = NoWorkspace
         /\ window_ws' = [window_ws EXCEPT ![w] = current]
    /\ Idle
    /\ UNCHANGED <<pointer_location, current, outputs, focus, pointer_target,
                   serial, status, config, history>>

Next ==
    \/ Keyboard
    \/ PointerMotion
    \/ PointerMotionAbsolute
    \/ PointerButton
    \/ PointerAxis
    \/ SetFocus
    \/ SetFocusAuto
    \/ OutputBind
    \/ OutputResize
    \/ MapWindow

Spec == Init /\ [][Next]_vars

(***************************************************************************)
(* The key specification: every binding table, every chord, press and      *)
(* release, over the windows and the focus the pointer gives.              *)
(***************************************************************************)
\* an output is bound and both windows are mapped on the active workspace
InitKeys ==
    /\ pointer_location = Pt(0, 0)
    /\ current = 0
    /\ window_ws = [w \in Windows |-> 0]
    /\ outputs \in { <<g>> : g \in OutputGeos }
    /\ focus = NoWindow
    /\ pointer_target = NoWindow
    /\ serial = 0
    /\ status = "running"
    /\ event = NoEvent
    /\ sent = <<>>
    /\ executed = <<>>
    /\ config \in 2..Len(Tables)
    /\ history = <<>>

KeyboardAny == KeyboardOver(AllKeyEvents)

NextKeys ==
    \/ KeyboardAny
    \/ PointerMotionAbsolute

SpecKeys == InitKeys /\ [][NextKeys]_vars

(***************************************************************************)
(* The axis specification: every axis event.                               *)
(***************************************************************************)
PointerAxisAny == PointerAxisOver(AxisEvents)

NextAxis == PointerAxisAny

SpecAxis == Init /\ [][NextAxis]_vars

(***************************************************************************)
(* The relative-motion specification: an output is bound, the pointer is   *)
(* at (0,0), and only relative motion arrives; history keeps the deltas.   *)
(***************************************************************************)
\* relative-motion events the history may hold
MaxDeltas == 3

InitRel ==
    /\ pointer_location = Pt(0, 0)
    /\ current = 0
    /\ window_ws = [w \in Windows |-> NoWorkspace]
    /\ outputs \in { <<g>> : g \in OutputGeos }
    /\ focus = NoWindow
    /\ pointer_target = NoWindow
    /\ serial = 0
    /\ status = "running"
    /\ event = NoEvent
    /\ sent = <<>>
    /\ executed = <<>>
    /\ config = 1
    /\ history = <<>>

RelativeMotion ==
    /\ status # "panicked"
    /\ Len(history) < MaxDeltas
    /\ \E ev \in MotionEvents :
         /\ \E r \in {ProcessInputEvent(State, ev, TRUE)} : Commit(r, ev)
         /\ history' = Append(history, ev.delta)

NextRel == RelativeMotion

SpecRel == InitRel /\ [][NextRel]_vars

(***************************************************************************)
(* The step specification: one handler step, or one call of handle_action, *)
(* from every arrangement of pointer, windows, active workspace, outputs   *)
(* and focus on the grid.                                                  *)
(***************************************************************************)
\* the actions handle_action can be called with
Actions ==
    {Quit, Debug, Close, ToggleWindowFloating, Spawn("term"), VTSwitch(1)}
        \cup { Workspace(id) : id \in WorkspaceIds }
        \cup { MoveWindow(id) : id \in WorkspaceIds }
        \cup { MoveAndSwitch(id) : id \in WorkspaceIds }

\* the call handle_action(action) as the step's input
ActionCall(action) == [kind |-> "action", action |-> action]

InitStep ==
    /\ pointer_location \in { Pt(px, py) : px \in 0..(MaxCoord + 1), py \in 0..(MaxCoord + 1) }
    /\ current \in WorkspaceIds
    /\ window_ws \in [Windows -> WorkspaceIds \cup {NoWorkspace}]
    /\ outputs \in { <<>> } \cup { <<g>> : g \in OutputGeos }
                     \cup { <<g, h>> : g, h \in OutputGeos }
    /\ focus \in { NoWindow } \cup { w \in Windows : window_ws[w] # NoWorkspace }
    /\ pointer_target = NoWindow
    /\ serial = 0
    /\ status \in {"running", "stopped"}
    /\ event = NoEvent
    /\ sent = <<>>
    /\ executed = <<>>
    /\ config = 1
    /\ history = <<>>

\* self.handle_action(action), called on its own
Dispatch ==
    /\ Drawing
    /\ \E action \in Actions :
         \E spawn_ok \in IF action.type = "Spawn" THEN BOOLEAN ELSE {TRUE} :
            \E r \in {HandleAction(State, action, spawn_ok)} : Commit(r, ActionCall(action))
    /\ UNCHANGED history

\* one step from the arrangement drawn
FirstStep(A) == event = NoEvent /\ A

NextStep ==
    \/ FirstStep(Dispatch)
    \/ FirstStep(Keyboard)
    \/ FirstStep(PointerMotion)
    \/ FirstStep(PointerMotionAbsolute)
    \/ FirstStep(PointerButton)
    \/ FirstStep(PointerAxis)
    \/ FirstStep(SetFocus)
    \/ FirstStep(SetFocusAuto)

SpecStep == InitStep /\ [][NextStep]_vars

(***************************************************************************)
(* The action specification: sequences of handle_action calls and key      *)
(* events, from every arrangement of pointer, windows, active workspace    *)
(* and focus on the grid; the pointer stays where the arrangement put it.  *)
(***************************************************************************)
InitActions ==
    /\ pointer_location \in { Pt(px, py) : px \in 0..MaxCoord, py \in 0..MaxCoord }
    /\ current \in WorkspaceIds
    /\ window_ws \in [Windows -> WorkspaceIds \cup {NoWorkspace}]
    /\ outputs = <<>>
    /\ focus \in { NoWindow } \cup { w \in Windows : window_ws[w] # NoWorkspace }
    /\ pointer_target = NoWindow
    /\ serial = 0
    /\ status = "running"
    /\ event = NoEvent
    /\ sent = <<>>
    /\ executed = <<>>
    /\ config = 1
    /\ history = <<>>

NextActions ==
    \/ Dispatch
    \/ Keyboard

SpecActions == InitActions /\ [][NextActions]_vars

(***************************************************************************)
(* The clamp specification: clamp_coords applied to a point, and again to  *)
(* its result, for every point of a grid around the outputs and every      *)
(* output arrangement.                                                     *)
(***************************************************************************)
\* primary output geometries: an empty mode, and modes with and without an origin
ClampGeos == OutputGeos \cup {Rect(0, 0, 0, 0), Rect(0, 0, 1, 3), Rect(2, 1, 2, 1)}

ClampCoordsRange == (0 - MaxCoord - 1)..(MaxCoord + 2)

InitClamp ==
    /\ pointer_location \in { Pt(px, py) : px \in ClampCoordsRange, py \in ClampCoordsRange }
    /\ current = 0
    /\ window_ws = [w \in Windows |-> NoWorkspace]
    /\ outputs \in { <<>> } \cup { <<g>> : g \in ClampGeos }
                     \cup { <<g, Rect(0, 0, 2, 2)>> : g \in ClampGeos \ {Rect(0, 0, 2, 2)} }
    /\ focus = NoWindow
    /\ pointer_target = NoWindow
    /\ serial = 0
    /\ status = "running"
    /\ event = NoEvent
    /\ sent = <<>>
    /\ executed = <<>>
    /\ config = 1
    /\ history = <<>>

\* self.pointer_location = self.clamp_coords(self.pointer_location)
Clamp ==
    /\ Len(history) < 2
    /\ history' = Append(history, pointer_location)
    /\ pointer_location' = ClampCoords(State, pointer_location)
    /\ event' = [kind |-> "clamp"]
    /\ UNCHANGED <<current, window_ws, outputs, focus, pointer_target, serial, status,
                   sent, executed, config>>

NextClamp == Clamp

SpecClamp == InitClamp /\ [][NextClamp]_vars

(***************************************************************************)
(* Properties.                                                             *)
(***************************************************************************)
\* the calls of the last step that carry a serial
HasSerial(n) == n.kind \in {"key", "motion", "button", "focus"}

\* the last step sent no call of this kind
NoneSent(kind) == \A i \in 1..Len(sent) : sent[i].kind # kind

\* C1: in every reachable state in which the active workspace has an output, the
\* stored pointer location lies inside the primary output's rectangle, between its
\* origin and origin + size on each axis.
C1_PointerInsidePrimaryOutput ==
    outputs # <<>> =>
        /\ Head(outputs).loc.x <= pointer_location.x
        /\ pointer_location.x <= Head(outputs).loc.x + Head(outputs).size.x
        /\ Head(outputs).loc.y <= pointer_location.y
        /\ pointer_location.y <= Head(outputs).loc.y + Head(outputs).size.y

\* C2: the notifications that carry a serial are dispatched in the order their
\* serials were issued: each carries a serial strictly greater than the serial of
\* every notification dispatched before it.
C2_SerialsInDispatchOrder ==
    \A i, j \in 1..Len(sent) :
        (i < j /\ HasSerial(sent[i]) /\ HasSerial(sent[j])) => sent[i].serial < sent[j].serial

RECURSIVE SumDeltas(_)
SumDeltas(ds) ==
    IF ds = <<>> THEN Pt(0, 0)
    ELSE Pt(SumDeltas(Tail(ds)).x + Head(ds).x, SumDeltas(Tail(ds)).y + Head(ds).y)

\* clamp(p) = componentwise min(max(p, 0), output_size)
C3_Clamp(p, size) ==
    Pt(IF p.x < 0 THEN 0 ELSE IF p.x > size.x THEN size.x ELSE p.x,
       IF p.y < 0 THEN 0 ELSE IF p.y > size.y THEN size.y ELSE p.y)

\* the location after the deltas, clamped after each one
RECURSIVE C3_Stepwise(_, _)
C3_Stepwise(ds, size) ==
    IF ds = <<>> THEN Pt(0, 0)
    ELSE LET before == C3_Stepwise(SubSeq(ds, 1, Len(ds) - 1), size)
         IN  C3_Clamp(Pt(before.x + ds[Len(ds)].x, before.y + ds[Len(ds)].y), size)

C3_InRange(p, size) == C3_Clamp(p, size) = p

\* every proper prefix of the deltas sums to a point inside [0, output_size]
C3_PrefixesInRange(ds, size) ==
    \A n \in 0..(Len(ds) - 1) : C3_InRange(SumDeltas(SubSeq(ds, 1, n)), size)

\* C3 as stated: after any sequence of relative deltas from (0,0) with an output
\* bound, the pointer location equals clamp(sum of all deltas).
C3_FinalIsClampOfSum ==
    pointer_location = C3_Clamp(SumDeltas(history), Head(outputs).size)

\* C3 amended: the pointer location is the result of clamping after every delta;
\* it equals clamp(sum of all deltas) when every proper prefix of the deltas sums
\* to a point inside [0, output_size].
C3_FinalIsStepwiseClamp ==
    /\ pointer_location = C3_Stepwise(history, Head(outputs).size)
    /\ C3_PrefixesInRange(history, Head(outputs).size) =>
           pointer_location = C3_Clamp(SumDeltas(history), Head(outputs).size)

\* several deltas stayed in range and the last one left it: the clamp acted on the sum
C3_Witness ==
    /\ Len(history) >= 2
    /\ C3_PrefixesInRange(history, Head(outputs).size)
    /\ ~C3_InRange(SumDeltas(history), Head(outputs).size)
    /\ event.kind = "motion"

\* binding i matches the key event of the last step: equal modifier sets, and the
\* binding's symbol among the event's symbols
Eligible(i) ==
    /\ Keybindings[i].modifiers = event.modifiers
    /\ Keybindings[i].key \in event.syms

\* the last step's key event was intercepted for this action: the action ran
\* first, and no key reached a client
Intercepted(action) ==
    /\ executed # <<>>
    /\ executed[1] = action
    /\ NoneSent("key")

\* the last step's key event went to the focused client and no action ran
Forwarded ==
    /\ executed = <<>>
    /\ sent = << [kind |-> "key", target |-> focus, code |-> event.code,
                  state |-> event.state, serial |-> serial, time |-> event.time] >>

\* C4 as stated: a press matching binding B's modifier set and symbol yields
\* Intercept(B.action), for every binding B of the table; every release is forwarded.
C4_EveryMatchingBindingIntercepts ==
    event.kind = "key" =>
        /\ event.state = "Pressed" =>
              \A i \in 1..Len(Keybindings) : Eligible(i) => Intercepted(Keybindings[i].action)
        /\ event.state = "Released" => Forwarded

\* C4 amended: a press matching binding B's modifier set and symbol yields
\* Intercept(B.action) when no binding earlier in the table matches the press too;
\* every release is forwarded, whatever the event before it.
C4_FirstMatchingBindingIntercepts ==
    event.kind = "key" =>
        /\ event.state = "Pressed" =>
              \A i \in 1..Len(Keybindings) :
                  (Eligible(i) /\ \A j \in 1..(i - 1) : ~Eligible(j))
                      => Intercepted(Keybindings[i].action)
        /\ event.state = "Released" => Forwarded

\* a release of a bound chord was forwarded
C4_Witness ==
    /\ event.kind = "key"
    /\ event.state = "Released"
    /\ \E i \in 1..Len(Keybindings) : Eligible(i)
    /\ Forwarded
    /\ focus # NoWindow

\* C5: on a press the decision is the action of the lowest-index binding whose
\* modifier set equals the active one and whose symbol is among the event's;
\* without such a binding (an empty table included) the key is forwarded.
C5_DecisionIsFirstMatch ==
    (event.kind = "key" /\ event.state = "Pressed") =>
        LET eligible == { i \in 1..Len(Keybindings) : Eligible(i) }
        IN  IF eligible = {} THEN Forwarded
            ELSE Intercepted(Keybindings[CHOOSE i \in eligible : \A j \in eligible : i <= j].action)

\* a press with two eligible bindings of different actions, and a binding passed
\* over because its modifier set is a strict subset of the active one
C5_Witness ==
    /\ event.kind = "key"
    /\ event.state = "Pressed"
    /\ \E i, j \in 1..Len(Keybindings) :
          /\ i < j /\ Eligible(i) /\ Eligible(j)
          /\ Keybindings[i].action # Keybindings[j].action
          /\ Intercepted(Keybindings[i].action)
    /\ \E k \in 1..Len(Keybindings) :
          /\ Keybindings[k].key \in event.syms
          /\ Keybindings[k].modifiers # event.modifiers
          /\ Keybindings[k].modifiers \subseteq event.modifiers

\* how often the action was passed to handle_action by the last step
TimesExecuted(action) == Cardinality({ i \in 1..Len(executed) : executed[i] = action })

\* C6: a key event that the filter intercepts runs its action exactly once and
\* reaches no client; one it forwards reaches the focused client with the event's
\* code, state and time and the event's serial, and runs no action.
C6_InterceptOrForward ==
    event.kind = "key" =>
        LET result == Filter(Keybindings, event.modifiers, event.syms, event.state)
        IN  IF result.type = "Intercept"
            THEN /\ Intercepted(result.action)
                 /\ TimesExecuted(result.action) = 1
            ELSE Forwarded

\* a forwarded press reached a focused client
C6_Witness ==
    /\ event.kind = "key"
    /\ event.state = "Pressed"
    /\ Forwarded
    /\ focus # NoWindow
    /\ Len(Keybindings) > 0

\* C7: a MoveAndSwitch(id) step ends in the state MoveWindow(id) followed by
\* Workspace(id) ends in (memberships, active workspace, focus, pointer location,
\* serials issued); the window under the pointer beforehand is then a member of
\* workspace id, and workspace id is active.
C7_MoveAndSwitchIsMoveThenSwitch ==
    [][ (event'.kind = "key" /\ executed' # <<>> /\ executed'[1].type = "MoveAndSwitch") =>
            LET id == executed'[1].id
                before == WindowUnder(State, pointer_location)
                after == ActionWorkspace(ActionMoveWindow(Issued(State), id), id)
            IN  /\ window_ws' = after.window_ws
                /\ current' = after.current
                /\ focus' = after.focus
                /\ pointer_location' = after.pointer_location
                /\ serial' = after.serial
                /\ before # NoWindow => (window_ws'[before] = id /\ current' = id)
      ]_vars

\* MoveAndSwitch(1) ran on workspace 0 over a window: the window is on workspace 1,
\* workspace 1 is active and the window, still under the pointer, has the focus
C7_Witness ==
    /\ event.kind = "key"
    /\ executed = << MoveAndSwitch(1), MoveWindow(1), Workspace(1) >>
    /\ current = 1
    /\ SurfaceUnder(State) # NoWindow
    /\ focus = SurfaceUnder(State)
    /\ ~NoneSent("focus")

\* the amount of an axis: the continuous amount, else the discrete steps times 3, else 0
C8_Amount(amount, amount_discrete) ==
    IF amount.some THEN amount.val
    ELSE IF amount_discrete.some THEN 3 * amount_discrete.val
    ELSE 0

\* what the frame holds for one axis, given the event's values for that axis
C8_AxisOutcome(part, amount, amount_discrete, source) ==
    IF C8_Amount(amount, amount_discrete) = 0
    THEN /\ ~part.value.some
         /\ ~part.discrete.some
         /\ part.stop = (source = "Finger")
    ELSE /\ part.value = Some(C8_Amount(amount, amount_discrete))
         /\ part.discrete = amount_discrete
         /\ ~part.stop

\* C8: an axis event dispatches exactly one frame; for each axis on its own, a zero
\* amount from a source other than a finger leaves the axis out of the frame, a zero
\* amount from a finger puts a stop for that axis in it, and another amount puts the
\* value (and the discrete count when there is one) in it, without a stop.
C8_AxisFrame ==
    event.kind = "axis" =>
        /\ Len(sent) = 1
        /\ sent[1].kind = "axis"
        /\ C8_AxisOutcome(sent[1].horizontal, event.amount.h, event.amount_discrete.h, event.source)
        /\ C8_AxisOutcome(sent[1].vertical, event.amount.v, event.amount_discrete.v, event.source)

\* a finger frame that stops the horizontal axis only; the vertical value comes from
\* discrete steps
C8_Witness ==
    /\ event.kind = "axis"
    /\ event.source = "Finger"
    /\ sent[1].horizontal.stop
    /\ ~sent[1].vertical.stop
    /\ ~event.amount.v.some
    /\ sent[1].vertical.value = Some(6)
    /\ sent[1].vertical.discrete = Some(2)

\* C9: a button event first gives the keyboard focus to the surface under the
\* pointer, when there is one, and then delivers the button (code, state, the
\* event's serial, time) once, to the pointer's target.
C9_FocusBeforeButton ==
    event.kind = "button" =>
        LET under == SurfaceUnder(State)
            button(n) == [kind |-> "button", target |-> pointer_target,
                          button |-> event.button, state |-> event.state,
                          serial |-> n, time |-> event.time]
        IN  IF under # NoWindow
            THEN /\ sent = << [kind |-> "focus", target |-> under, serial |-> serial],
                              button(serial - 1) >>
                 /\ focus = under
            ELSE sent = << button(serial) >>

\* a button over a surface: the focus call went out first, then the button
C9_Witness ==
    /\ event.kind = "button"
    /\ Len(sent) = 2
    /\ sent[1].kind = "focus"
    /\ sent[2].kind = "button"
    /\ sent[2].target # NoWindow

\* auto-focus ran in the last step
AutoFocusRan ==
    \/ event.kind \in {"motion", "button", "set_input_focus_auto"}
    \/ event.kind = "motion_absolute" /\ status # "panicked"
    \/ \E i \in 1..Len(executed) : executed[i].type = "Workspace"

\* C10: when auto-focus runs with no surface under the pointer, the focus stays as
\* it was and no focus call is sent; no step takes an assigned focus away.
C10_FocusIsSticky ==
    [][ /\ focus # NoWindow => focus' # NoWindow
        /\ (AutoFocusRan' /\ SurfaceUnder(State)' = NoWindow) =>
               (focus' = focus /\ NoneSent("focus")')
      ]_vars

\* the pointer moved off every surface and the focus stayed where it was
C10_Witness ==
    /\ event.kind = "motion"
    /\ focus # NoWindow
    /\ SurfaceUnder(State) = NoWindow
    /\ NoneSent("focus")
    /\ current = window_ws[focus]

\* serials the last step's input issued before handle_action ran: one for a key event
KeySerials(ev) == IF ev.kind = "key" THEN 1 ELSE 0

\* C11: Close or MoveWindow(id), executed while no window of the active workspace is
\* under the pointer, sends no close request and leaves memberships, active
\* workspace, focus, pointer location and serial counter as they were; the pipeline
\* enters no terminated state (a running loop keeps running, a stopped one is not
\* made to panic).
C11_NoTargetIsNoOp ==
    [][ ( /\ executed' # <<>>
          /\ executed'[1].type \in {"Close", "MoveWindow"}
          /\ WindowUnder(State, pointer_location) = NoWindow ) =>
            /\ sent' = <<>>
            /\ window_ws' = window_ws
            /\ current' = current
            /\ focus' = focus
            /\ pointer_location' = pointer_location
            /\ serial' = serial + KeySerials(event')
            /\ status' = status
      ]_vars

\* Close ran while a window of another workspace, and a focused window, lay at the
\* pointer's place: nothing was sent
C11_Witness ==
    /\ executed = << Close >>
    /\ sent = <<>>
    /\ status = "running"
    /\ focus # NoWindow
    /\ \E w \in Windows :
          /\ window_ws[w] \notin {NoWorkspace, current}
          /\ Contains(WindowGeo(w), pointer_location)

\* C12: an absolute-motion event that arrives while the active workspace has no
\* output ends the pipeline: the pointer location, the serial counter and the
\* focus are as before, nothing is sent, and no step follows.
C12_AbsoluteMotionWithoutOutputIsFatal ==
    [][ /\ (event'.kind = "motion_absolute" /\ outputs = <<>>) =>
               /\ status' = "panicked"
               /\ pointer_location' = pointer_location
               /\ serial' = serial
               /\ focus' = focus
               /\ pointer_target' = pointer_target
               /\ sent' = <<>>
        /\ ~(event.kind = "motion_absolute" /\ status = "panicked")
      ]_vars

\* relative motion had moved the pointer and given a window the focus, all without
\* an output, when the absolute motion arrived
C12_Witness ==
    /\ event.kind = "motion_absolute"
    /\ status = "panicked"
    /\ outputs = <<>>
    /\ sent = <<>>
    /\ serial > 0
    /\ focus # NoWindow
    /\ pointer_location # Pt(0, 0)

\* the actions whose arm in handle_action is todo!()
Unimplemented == {"Debug", "ToggleWindowFloating", "VTSwitch"}

\* C13: Debug, ToggleWindowFloating and VTSwitch(n), called on their own or reached
\* through an intercepted key press, end the process where it stands: nothing is
\* sent or changed by the action, and no step follows; Quit, Close, Workspace,
\* MoveWindow, MoveAndSwitch and Spawn never end it that way.
C13_UnimplementedActionsAreFatal ==
    [][ /\ executed' # <<>> =>
               /\ (status' = "panicked") <=> (executed'[1].type \in Unimplemented)
               /\ status' = "panicked" =>
                      /\ Len(executed') = 1
                      /\ sent' = <<>>
                      /\ window_ws' = window_ws
                      /\ current' = current
                      /\ focus' = focus
                      /\ serial' = serial + KeySerials(event')
        /\ status # "panicked"
      ]_vars

\* after a switch to workspace 1 that gave a window the focus, a key press bound to
\* VTSwitch ended the process
C13_Witness ==
    /\ event.kind = "key"
    /\ executed = << VTSwitch(1) >>
    /\ status = "panicked"
    /\ current = 1
    /\ serial >= 3
    /\ focus # NoWindow

\* C14: Spawn(cmd) changes nothing the compositor holds, whether the launch succeeds
\* or fails: pointer location, focus, pointer target, active workspace, memberships,
\* outputs and serial counter are as before and the pipeline's status stays (a
\* running loop keeps running); the
\* launch is attempted once, a failure is logged, and nothing is kept of the child.
C14_SpawnLeavesStateAlone ==
    [][ (executed' # <<>> /\ executed'[1].type = "Spawn") =>
            LET launch == [kind |-> "spawn", command |-> executed'[1].command]
                log == [kind |-> "log", command |-> executed'[1].command]
            IN  /\ pointer_location' = pointer_location
                /\ focus' = focus
                /\ pointer_target' = pointer_target
                /\ current' = current
                /\ window_ws' = window_ws
                /\ outputs' = outputs
                /\ serial' = serial + KeySerials(event')
                /\ status' = status
                /\ sent' \in { << launch >>, << launch, log >> }
      ]_vars

\* a key press reached Spawn and the launch failed: the failure was logged and the
\* pipeline runs on
C14_Witness ==
    /\ event.kind = "key"
    /\ executed = << Spawn("term") >>
    /\ Len(sent) = 2
    /\ sent[2].kind = "log"
    /\ status = "running"
    /\ focus # NoWindow
    /\ serial = 1

\* C15: clamp applied to its own result returns that result, for every point and
\* every output arrangement; without an output clamp returns the point given to it.
C15_ClampIsIdempotent ==
    /\ Len(history) = 2 => (pointer_location = history[2])
    /\ (outputs = <<>> /\ Len(history) >= 1) => (pointer_location = history[1])

\* a point outside the output on both axes was clamped, and clamped again
C15_Witness ==
    /\ Len(history) = 2
    /\ outputs # <<>>
    /\ history[1].x # history[2].x
    /\ history[1].y # history[2].y
    /\ event.kind = "clamp"

\* C16: the location carried by the motion notification of a relative or absolute
\* motion event is the pointer location the state holds once the event is handled.
C16_NotifiedLocationIsStored ==
    event.kind \in {"motion", "motion_absolute"} =>
        \A i \in 1..Len(sent) :
            sent[i].kind = "motion" => sent[i].location = pointer_location

\* one coordinate limited to [0, max]
C17_Limit(v, max) == IF v < 0 THEN 0 ELSE IF v > max THEN max ELSE v

\* C17: one relative-motion event with delta (dx, dy) sets the pointer location to
\* old + (dx, dy) with each coordinate limited on its own to [0, primary output
\* size]; without an output the new location is old + (dx, dy) itself.
C17_RelativeMotionMovesAndClamps ==
    [][ event'.kind = "motion" =>
            LET tx == pointer_location.x + event'.delta.x
                ty == pointer_location.y + event'.delta.y
            IN  IF outputs = <<>>
                THEN pointer_location' = Pt(tx, ty)
                ELSE pointer_location' = Pt(C17_Limit(tx, Head(outputs).size.x),
                                            C17_Limit(ty, Head(outputs).size.y))
      ]_vars

\* a move to the left past the output's edge and down inside it: x stopped at 0
\* while y moved by the delta
C17_Witness ==
    /\ event.kind = "motion"
    /\ outputs # <<>>
    /\ event.delta = Pt(0 - 2, 1)
    /\ pointer_location = Pt(0, 1)
    /\ sent[Len(sent)].kind = "relative_motion"

\* C18: MoveWindow(id) leaves the active workspace, the focus, the pointer location
\* and the serial counter as they were and sends nothing; the window under the
\* pointer, when there is one, becomes a member of workspace id, and every other
\* membership stays.
C18_MoveWindowKeepsView ==
    [][ (executed' # <<>> /\ executed'[1].type = "MoveWindow") =>
            LET under == WindowUnder(State, pointer_location)
                id == executed'[1].id
            IN  /\ current' = current
                /\ focus' = focus
                /\ pointer_location' = pointer_location
                /\ pointer_target' = pointer_target
                /\ serial' = serial + KeySerials(event')
                /\ status' = status
                /\ sent' = <<>>
                /\ window_ws' = IF under = NoWindow THEN window_ws
                                ELSE [window_ws EXCEPT ![under] = id]
      ]_vars

\* MoveWindow(1) ran on workspace 0: the focused window at the pointer's place is on
\* workspace 1, the window below it is now the one under the pointer, and
\* workspace 0 is still active
C18_Witness ==
    /\ executed = << MoveWindow(1) >>
    /\ current = 0
    /\ focus = "w1"
    /\ window_ws["w1"] = 1
    /\ Contains(WindowGeo("w1"), pointer_location)
    /\ SurfaceUnder(State) = "w2"

\* C19: once a relative-motion, absolute-motion or button event is handled, and once
\* Workspace(id) is executed, a surface that lies under the stored pointer location
\* in the active workspace has the keyboard focus, and the step's focus call named it.
C19_FocusFollowsPointer ==
    (AutoFocusRan /\ SurfaceUnder(State) # NoWindow) =>
        /\ focus = SurfaceUnder(State)
        /\ \E i \in 1..Len(sent) :
              /\ sent[i].kind = "focus"
              /\ sent[i].target = SurfaceUnder(State)
              /\ \A j \in (i + 1)..Len(sent) : sent[j].kind # "focus"

\* a key press switched to workspace 1 and the window there, under the pointer, got
\* the focus, while the other window stayed behind on workspace 0
C19_Witness ==
    /\ event.kind = "key"
    /\ executed = << Workspace(1) >>
    /\ current = 1
    /\ SurfaceUnder(State) # NoWindow
    /\ focus = SurfaceUnder(State)
    /\ \E w \in Windows : window_ws[w] = 0

\* C20: the stored pointer location changes only in a relative-motion or an
\* absolute-motion event: key events (forwarded or intercepted), button events,
\* axis events, focus assignment and every action of handle_action leave it alone.
C20_OnlyMotionMovesPointer ==
    [][ /\ event'.kind \in {"key", "button", "axis", "action",
                          "set_input_focus", "set_input_focus_auto"} =>
               pointer_location' = pointer_location
        /\ pointer_location' # pointer_location =>
               event'.kind \in {"motion", "motion_absolute"}
      ]_vars

\* a button over a window, away from the window's origin, gave the window the focus
\* and the pointer stayed where it was
C20_Witness ==
    /\ event.kind = "button"
    /\ ~NoneSent("focus")
    /\ focus = SurfaceUnder(State)
    /\ pointer_location # WindowGeo(focus).loc
    /\ pointer_location # Pt(0, 0)

====
